---------------------------- MODULE Spec2Model ----------------------------
(***************************************************************************)
(* A model of the main_dealer application (steve-ongera/kaiandkaro):       *)
(*   - CarImage.save and the single-main-image rule (models.py),           *)
(*   - car_list_view: filters, sorting, pagination, facets (views.py),     *)
(*   - lead capture: InquiryForm.save, TestDriveForm.save (forms.py) and   *)
(*     the POST branch of car_detail_view (views.py),                      *)
(*   - the derived attributes final_price, monthly_rent_estimate and       *)
(*     main_image of a Car (models.py).                                    *)
(*   - the related Cars of car_detail_view (views.py),                     *)
(*   - Car.save, the unique columns and the on_delete rules of the tables  *)
(*     (models.py).                                                        *)
(* The relational store is modelled as tables (functions / sequences of    *)
(* rows); every ORM statement that hits the store is one atomic step.      *)
(* Text is modelled as sequences of one-character strings so that parsing  *)
(* and case-insensitive matching are computed, not assumed.                *)
(***************************************************************************)
EXTENDS Integers, Sequences, FiniteSets, TLC

VARIABLES
    images,   \* table CarImage: image id -> [car, is_main, order]; created_at = id
    inst,     \* per caller: the in-memory CarImage instance being saved
    pc,       \* per caller: position inside CarImage.save
    saved,    \* per caller: the instance as written by the last finished save
    cars,     \* table Car: sequence of rows in insertion order (created_at = index)
    req,      \* request.GET of the last car_list_view request
    resp,     \* what that request produced (context handed to render, or a 500)
    book,     \* the pages collected so far while paging through one listing
    customers,    \* table Customer: sequence of rows, primary key = position
    inquiries,    \* table Inquiry: sequence of rows [car, customer]
    test_drives,  \* table TestDrive: sequence of rows [car, customer]
    lead,     \* per caller: the lead-capture request in progress
    outcome,  \* per caller: how the caller's last lead-capture request ended
    subs,     \* the valid submissions whose form.save() finished, in that order
    reading,  \* the derived attributes last read from a Car
    rel,      \* the keyed store: rows by primary key, with their foreign keys
              \* and unique columns
    done      \* the last write to the keyed store and how it ended

leadVars == <<customers, inquiries, test_drives, lead, outcome, subs>>

relVars == <<rel, done>>

vars == <<images, inst, pc, saved, cars, req, resp, book, leadVars, reading, relVars>>

-----------------------------------------------------------------------------
(* Bounds of the model *)

MaxImages == 3        \* rows of CarImage
MaxCatalogCars == 3   \* rows of Car in the filter specification
MaxPageCars == 10     \* rows of Car in the pagination specification
MaxLeads == 2         \* lead-capture requests
MaxPricedCars == 2    \* rows of Car in the derived-attribute specification
MaxDetailCars == 6    \* rows of Car in the detail-page specification
MaxStoreCars == 2     \* rows of Car in the keyed store
MaxDependents == 2    \* rows of the tables that hang off a Car in the keyed store
MaxStoreRows == 6     \* rows of all tables in the delete specification

ImageCars == {1, 2}   \* the Cars images are attached to
Callers == {1, 2}     \* concurrent request handlers / admin sessions

-----------------------------------------------------------------------------
(* CarImage  (models.py 222-241) *)

NoInst == [id |-> 0, car |-> 0, is_main |-> FALSE, order |-> 0]

ImageIds == DOMAIN images

\* CarImage.objects.filter(car=car, is_main=True)
MainImages(imgs, car) ==
    {i \in DOMAIN imgs : imgs[i].car = car /\ imgs[i].is_main}

\* a save that forgets to clear the other main images
ClearMainNever(imgs, car) == imgs

\* CarImage.objects.filter(car=self.car, is_main=True).update(is_main=False)
ClearMain(imgs, car) ==
    [i \in DOMAIN imgs |->
        IF imgs[i].car = car /\ imgs[i].is_main
        THEN [imgs[i] EXCEPT !.is_main = FALSE]
        ELSE imgs[i]]

\* the primary key an INSERT gets (auto-increment, no deletes in this model)
NextImageId(imgs) == Cardinality(DOMAIN imgs) + 1

\* a write that flags the oldest image of a Car left without a main image
WriteRowPromoting(imgs, i) ==
    LET id      == IF i.id # 0 THEN i.id ELSE Cardinality(DOMAIN imgs) + 1
        row     == [car |-> i.car, is_main |-> i.is_main, order |-> i.order]
        written == [k \in DOMAIN imgs \cup {id} |-> IF k = id THEN row ELSE imgs[k]]
        mine    == {k \in DOMAIN written : written[k].car = i.car}
    IN  IF \E k \in mine : written[k].is_main THEN written
        ELSE [k \in DOMAIN written |->
                 IF k = CHOOSE j \in mine : \A h \in mine : j <= h
                 THEN [written[k] EXCEPT !.is_main = TRUE]
                 ELSE written[k]]

\* super().save(): UPDATE the row of an instance that has a pk, else INSERT
WriteRow(imgs, i) ==
    LET id  == IF i.id # 0 THEN i.id ELSE NextImageId(imgs)
        row == [car |-> i.car, is_main |-> i.is_main, order |-> i.order]
    IN  [k \in DOMAIN imgs \cup {id} |-> IF k = id THEN row ELSE imgs[k]]

PendingInserts == Cardinality({c \in Callers : pc[c] = "write" /\ inst[c].id = 0})

\* CarImage.save, lines 238-240: the instance arrives (a new one, or a loaded
\* row whose fields the caller has set, its order taken from orders) and the
\* other main images are cleared
SaveClearOthers(c, orders) ==
    /\ pc[c] = "idle"
    /\ \E id \in ImageIds \cup {0}, car \in ImageCars, m \in BOOLEAN, o \in orders :
          /\ id = 0 => Cardinality(ImageIds) + PendingInserts < MaxImages
          /\ inst' = [inst EXCEPT ![c] = [id |-> id, car |-> car, is_main |-> m,
                                          order |-> o]]
          /\ images' = IF m THEN ClearMain(images, car) ELSE images
    /\ pc' = [pc EXCEPT ![c] = "write"]
    /\ reading' = [kind |-> "none"]
    /\ UNCHANGED <<saved, cars, req, resp, book, leadVars, relVars>>

\* CarImage.save, line 241: super().save() writes the instance's row
SaveWriteRow(c) ==
    /\ pc[c] = "write"
    /\ LET id == IF inst[c].id # 0 THEN inst[c].id ELSE NextImageId(images)
       IN  /\ images' = WriteRow(images, inst[c])
           /\ saved' = [saved EXCEPT ![c] = [inst[c] EXCEPT !.id = id]]
    /\ inst' = [inst EXCEPT ![c] = NoInst]
    /\ pc' = [pc EXCEPT ![c] = "idle"]
    /\ reading' = [kind |-> "none"]
    /\ UNCHANGED <<cars, req, resp, book, leadVars, relVars>>

\* the images of a Car: car.images
ImagesOf(imgs, car) == {i \in DOMAIN imgs : imgs[i].car = car}

\* CarImage.Meta.ordering = ['order', 'created_at']
DisplayBefore(imgs, i, j) ==
    \/ imgs[i].order < imgs[j].order
    \/ imgs[i].order = imgs[j].order /\ i <= j

\* queryset.first(): the first row in display order, 0 (None) without rows
FirstImage(imgs, rows) ==
    IF rows = {} THEN 0
    ELSE CHOOSE i \in rows : \A j \in rows : DisplayBefore(imgs, i, j)

\* a main image that is just the oldest image of the Car
MainImageOldest(imgs, car) ==
    IF ImagesOf(imgs, car) = {} THEN 0
    ELSE CHOOSE i \in ImagesOf(imgs, car) : \A j \in ImagesOf(imgs, car) : i <= j

\* Car.main_image
MainImage(imgs, car) ==
    LET first_image == FirstImage(imgs, MainImages(imgs, car))
    IN  IF first_image # 0 THEN first_image
        ELSE FirstImage(imgs, ImagesOf(imgs, car))

\* car.main_image is read
ReadMainImage ==
    /\ \E car \in ImageCars :
          reading' = [kind |-> "main_image", car |-> car, value |-> MainImage(images, car)]
    /\ UNCHANGED <<images, inst, pc, saved, cars, req, resp, book, leadVars, relVars>>

-----------------------------------------------------------------------------
(* Text: a string is a sequence of one-character strings *)

UpperOf ==
    ("R" :> "r") @@ ("E" :> "e") @@ ("D" :> "d") @@ ("C" :> "c") @@ ("A" :> "a")
    @@ ("M" :> "m") @@ ("B" :> "b")

\* str.lower() / the store's case folding, one character
LowerCh(ch) == IF ch \in DOMAIN UpperOf THEN UpperOf[ch] ELSE ch

\* field__icontains=needle: case-insensitive substring match
IContains(hay, needle) ==
    \E off \in 0 .. (Len(hay) - Len(needle)) :
        \A j \in 1 .. Len(needle) : LowerCh(hay[off + j]) = LowerCh(needle[j])

DigitOf == ("0" :> 0) @@ ("1" :> 1) @@ ("2" :> 2) @@ ("3" :> 3) @@ ("4" :> 4)
           @@ ("5" :> 5) @@ ("6" :> 6) @@ ("7" :> 7) @@ ("8" :> 8) @@ ("9" :> 9)

RECURSIVE DigitsValue(_)
DigitsValue(s) ==
    IF s = <<>> THEN 0
    ELSE 10 * DigitsValue(SubSeq(s, 1, Len(s) - 1)) + DigitOf[s[Len(s)]]

AllDigits(s) == s # <<>> /\ \A j \in 1 .. Len(s) : s[j] \in DOMAIN DigitOf

NotANumber == [ok |-> FALSE, val |-> 0]

\* int(text): an optional sign and decimal digits, anything else raises
ParseInt(s) ==
    IF s # <<>> /\ s[1] \in {"-", "+"} /\ AllDigits(Tail(s))
    THEN [ok |-> TRUE, val |-> IF s[1] = "-" THEN 0 - DigitsValue(Tail(s)) ELSE DigitsValue(Tail(s))]
    ELSE IF AllDigits(s) THEN [ok |-> TRUE, val |-> DigitsValue(s)]
    ELSE NotANumber

-----------------------------------------------------------------------------
(* Car rows and the values of their choice fields  (models.py 80-173) *)

T_new == <<"n","e","w">>
T_foreign == <<"f","o","r","e","i","g","n">>
T_good == <<"g","o","o","d">>
T_fair == <<"f","a","i","r">>
T_manual == <<"m","a","n","u","a","l">>
T_automatic == <<"a","u","t","o","m","a","t","i","c">>
T_petrol == <<"p","e","t","r","o","l">>
T_diesel == <<"d","i","e","s","e","l">>

\* Brand.name and CarModel.name, by primary key
BrandName == (1 :> <<"R","a","m">>) @@ (2 :> <<"A","c","e">>)
ModelName == (1 :> <<"C","a","m">>) @@ (2 :> <<"E","r","a">>)

RowA ==
    [brand |-> 1, car_model |-> 1, year |-> 2020, car_type |-> T_new,
     condition |-> T_good, transmission |-> T_manual, fuel_type |-> T_petrol,
     color |-> <<"R","e","d">>, selling_price |-> 2, dealer_discount |-> 0,
     mileage |-> 10000,
     is_for_sale |-> TRUE, is_for_rent |-> FALSE,
     title |-> <<"D","e","a","r">>, description |-> <<>>, status |-> "available"]

RowB ==
    [brand |-> 2, car_model |-> 2, year |-> 2019, car_type |-> T_foreign,
     condition |-> T_fair, transmission |-> T_automatic, fuel_type |-> T_diesel,
     color |-> <<"C","r","e","a","m">>, selling_price |-> 3, dealer_discount |-> 0,
     mileage |-> 10001,
     is_for_sale |-> FALSE, is_for_rent |-> TRUE,
     title |-> <<"M","a","c","e">>, description |-> <<"R","a","r","e">>, status |-> "available"]

RowC ==
    [RowA EXCEPT !.year = 2018, !.color = <<"D","a","r","k">>, !.selling_price = 1,
                 !.status = "sold"]

RowD ==
    [RowA EXCEPT !.car_model = 2, !.transmission = T_automatic, !.mileage = 27000,
                 !.is_for_rent = TRUE, !.title = <<"M","A","D">>]

\* the rows an administrator may insert in the filter specification
CatalogRows == {RowA, RowB, RowC, RowD}

\* the row an administrator inserts as n-th car in the pagination specification:
\* prices go in pairs (1, 1, 2, 2, ...), so do years (shifted by one car), mileages
\* are all different, every fourth car is not for sale
PageRows(db) ==
    LET n == Len(db) + 1
    IN  {[RowA EXCEPT !.selling_price = (n + 1) \div 2, !.year = 2000 + (n \div 2),
                      !.mileage = 1000 * n, !.is_for_sale = (n % 4 # 0)]}

\* an administrator creates a Car between two listings: the row is appended
\* (created_at = position)
AddCar(row) ==
    /\ resp.status = "none"
    /\ cars' = Append(cars, row)
    /\ req' = <<>>
    /\ resp' = [status |-> "none"]
    /\ book' = <<>>
    /\ reading' = [kind |-> "none"]
    /\ UNCHANGED <<images, inst, pc, saved, leadVars, relVars>>

AddCatalogCar ==
    /\ Len(cars) < MaxCatalogCars
    /\ \E row \in CatalogRows : AddCar(row)

AddPageCar ==
    /\ Len(cars) < MaxPageCars
    /\ \E row \in PageRows(cars) : AddCar(row)

-----------------------------------------------------------------------------
(* car_list_view  (views.py 68-201) *)

\* request.GET is a function from the parameter names present to their text
Has(r, k) == k \in DOMAIN r

\* request.GET.get(k): None when absent; None and '' are both falsy, so both
\* are modelled as the empty text
Get(r, k) == IF Has(r, k) THEN r[k] ELSE <<>>

\* Decimal(text) of a price given in whole units
ParseDecimal(s) == ParseInt(s)

\* the integer parameters handed to filter(): brand_id, car_model_id, year
IntParams == {"brand", "model", "year"}
\* the decimal parameters handed to filter(): selling_price__gte / __lte
DecimalParams == {"min_price", "max_price"}

\* filter(year='abc') raises ValueError, filter(selling_price__gte='abc') raises
\* ValidationError; the view catches neither, so the request ends in a 500
FilterRaises(r) ==
    \/ \E k \in IntParams : Get(r, k) # <<>> /\ ~ParseInt(Get(r, k)).ok
    \/ \E k \in DecimalParams : Get(r, k) # <<>> /\ ~ParseDecimal(Get(r, k)).ok

\* a base queryset that forgets the status filter
BaseAll(db) == DOMAIN db

\* Car.objects.filter(status='available')
BaseQuery(db) == {i \in DOMAIN db : db[i].status = "available"}

\* mileage_map
MileageMap ==
    (<<"1","0">> :> 10000) @@ (<<"1","5">> :> 15000) @@ (<<"2","0">> :> 20000)
    @@ (<<"2","5">> :> 25000) @@ (<<"2","7">> :> 27000)

M_sale == <<"s","a","l","e">>
M_rent == <<"r","e","n","t">>
M_all == <<"a","l","l">>

\* a bucket bound taken as exclusive
MileageFilterExclusive(db, set, r) ==
    LET mileage == Get(r, "mileage")
    IN  IF mileage # <<>> /\ mileage \in DOMAIN MileageMap
        THEN {i \in set : db[i].mileage < MileageMap[mileage]}
        ELSE set

\* lines 117-128
MileageFilter(db, set, r) ==
    LET mileage == Get(r, "mileage")
    IN  IF mileage # <<>> /\ mileage \in DOMAIN MileageMap
        THEN {i \in set : db[i].mileage <= MileageMap[mileage]}
        ELSE set

\* an availability switch with the two modes exchanged
AvailabilityFilterSwapped(db, set, r) ==
    LET availability == IF Has(r, "availability") THEN r["availability"] ELSE M_all
    IN  IF availability = M_sale THEN {i \in set : db[i].is_for_rent}
        ELSE IF availability = M_rent THEN {i \in set : db[i].is_for_sale}
        ELSE set

\* lines 130-135
AvailabilityFilter(db, set, r) ==
    LET availability == IF Has(r, "availability") THEN r["availability"] ELSE M_all
    IN  IF availability = M_sale THEN {i \in set : db[i].is_for_sale}
        ELSE IF availability = M_rent THEN {i \in set : db[i].is_for_rent}
        ELSE set

\* a search that leaves the description out
SearchFilterNoDescription(db, set, r) ==
    LET search == Get(r, "search")
    IN  IF search # <<>>
        THEN {i \in set : \/ IContains(BrandName[db[i].brand], search)
                          \/ IContains(ModelName[db[i].car_model], search)
                          \/ IContains(db[i].title, search)}
        ELSE set

\* lines 137-145
SearchFilter(db, set, r) ==
    LET search == Get(r, "search")
    IN  IF search # <<>>
        THEN {i \in set : \/ IContains(BrandName[db[i].brand], search)
                          \/ IContains(ModelName[db[i].car_model], search)
                          \/ IContains(db[i].title, search)
                          \/ IContains(db[i].description, search)}
        ELSE set

\* lines 72-145: the queryset narrowed filter by filter (no conversion raises)
Filtered(db, r) ==
    LET c0  == BaseQuery(db)
        c1  == IF Get(r, "brand") # <<>>
               THEN {i \in c0 : db[i].brand = ParseInt(Get(r, "brand")).val} ELSE c0
        c2  == IF Get(r, "model") # <<>>
               THEN {i \in c1 : db[i].car_model = ParseInt(Get(r, "model")).val} ELSE c1
        c3  == IF Get(r, "year") # <<>>
               THEN {i \in c2 : db[i].year = ParseInt(Get(r, "year")).val} ELSE c2
        c4  == IF Get(r, "car_type") # <<>>
               THEN {i \in c3 : db[i].car_type = Get(r, "car_type")} ELSE c3
        c5  == IF Get(r, "condition") # <<>>
               THEN {i \in c4 : db[i].condition = Get(r, "condition")} ELSE c4
        c6  == IF Get(r, "transmission") # <<>>
               THEN {i \in c5 : db[i].transmission = Get(r, "transmission")} ELSE c5
        c7  == IF Get(r, "fuel_type") # <<>>
               THEN {i \in c6 : db[i].fuel_type = Get(r, "fuel_type")} ELSE c6
        c8  == IF Get(r, "color") # <<>>
               THEN {i \in c7 : IContains(db[i].color, Get(r, "color"))} ELSE c7
        c9  == IF Get(r, "min_price") # <<>>
               THEN {i \in c8 : db[i].selling_price >= ParseDecimal(Get(r, "min_price")).val}
               ELSE c8
        c10 == IF Get(r, "max_price") # <<>>
               THEN {i \in c9 : db[i].selling_price <= ParseDecimal(Get(r, "max_price")).val}
               ELSE c9
        c11 == MileageFilter(db, c10, r)
        c12 == AvailabilityFilter(db, c11, r)
    IN  SearchFilter(db, c12, r)

\* the sortable fields
F_price == <<"s","e","l","l","i","n","g","_","p","r","i","c","e">>
F_year == <<"y","e","a","r">>
F_mileage == <<"m","i","l","e","a","g","e">>
F_created == <<"c","r","e","a","t","e","d","_","a","t">>

Desc(f) == <<"-">> \o f

\* valid_sorts, lines 149-154
ValidSorts ==
    {F_price, Desc(F_price), F_year, Desc(F_year),
     F_mileage, Desc(F_mileage), F_created, Desc(F_created)}

\* Car.Meta.ordering (models.py 167)
MetaOrdering == Desc(F_created)

\* an ordering that falls back to oldest first
OrderingOldestFirst(r) ==
    LET sort_by == IF Has(r, "sort") THEN r["sort"] ELSE Desc(F_created)
    IN  IF sort_by \in ValidSorts THEN sort_by ELSE F_created

\* lines 148-156: the ORDER BY of the page query
Ordering(r) ==
    LET sort_by == IF Has(r, "sort") THEN r["sort"] ELSE Desc(F_created)
    IN  IF sort_by \in ValidSorts THEN sort_by ELSE MetaOrdering

\* the value of a sortable column; created_at is the insertion position
Column(db, i, f) ==
    IF f = F_price THEN db[i].selling_price
    ELSE IF f = F_year THEN db[i].year
    ELSE IF f = F_mileage THEN db[i].mileage
    ELSE i

\* row i must come before row j under ORDER BY ord
Before(db, i, j, ord) ==
    IF ord[1] = "-" THEN Column(db, i, Tail(ord)) > Column(db, j, Tail(ord))
    ELSE Column(db, i, ord) < Column(db, j, ord)

RECURSIVE Orderings(_, _, _)
\* every sequence the store may return for ORDER BY ord over the rows in set:
\* rows that tie on the column come in any order, the query names no second key
Orderings(db, set, ord) ==
    IF set = {} THEN {<<>>}
    ELSE LET firsts == {i \in set : \A j \in set : ~Before(db, j, i, ord)}
         IN  UNION {{<<i>> \o rest : rest \in Orderings(db, set \ {i}, ord)} : i \in firsts}

PageSizes == {9, 15, 20}
DefaultPerPage == 9

\* a page size taken from the request as it comes
PerPageUnchecked(r) ==
    IF ~Has(r, "per_page") THEN DefaultPerPage
    ELSE LET p == ParseInt(r["per_page"])
         IN  IF p.ok /\ p.val > 0 THEN p.val ELSE DefaultPerPage

\* lines 159-165
PerPage(r) ==
    IF ~Has(r, "per_page") THEN DefaultPerPage
    ELSE LET p == ParseInt(r["per_page"])
         IN  IF p.ok /\ p.val \in PageSizes THEN p.val ELSE DefaultPerPage

\* Paginator.num_pages (orphans = 0, allow_empty_first_page = True)
NumPages(count, per) == IF count = 0 THEN 1 ELSE (count + per - 1) \div per

\* a get_page that sends every out-of-range number to page 1
PageNumberFirst(r, pages) ==
    IF ~Has(r, "page") THEN 1
    ELSE LET p == ParseInt(r["page"])
         IN  IF ~p.ok THEN 1
             ELSE IF p.val < 1 \/ p.val > pages THEN 1
             ELSE p.val

\* Paginator.get_page, line 169: not an integer -> page 1, out of range -> last page
PageNumber(r, pages) ==
    IF ~Has(r, "page") THEN 1
    ELSE LET p == ParseInt(r["page"])
         IN  IF ~p.ok THEN 1
             ELSE IF p.val < 1 \/ p.val > pages THEN pages
             ELSE p.val

\* Page.object_list: rows bottom+1 .. top of the ordered queryset
PageSlice(seq, number, per) ==
    LET bottom == (number - 1) * per
        top    == IF bottom + per >= Len(seq) THEN Len(seq) ELSE bottom + per
    IN  SubSeq(seq, bottom + 1, top)

\* lines 177-184: Car.objects, every row of the table
FacetRows(db) == DOMAIN db

SetMin(S) == CHOOSE x \in S : \A y \in S : x <= y
SetMax(S) == CHOOSE x \in S : \A y \in S : x >= y

\* lines 177-184: years, colors (as sets of distinct values) and price_range
Facets(db) ==
    LET rows   == FacetRows(db)
        prices == {db[i].selling_price : i \in rows}
    IN  [years  |-> {db[i].year : i \in rows},
         colors |-> {db[i].color : i \in rows},
         price_range |-> IF rows = {} THEN <<>> ELSE <<SetMin(prices), SetMax(prices)>>]

\* the context of a request that did not raise, for one order of the page query
Context(db, r, seq) ==
    LET per    == PerPage(r)
        pages  == NumPages(Len(seq), per)
        number == PageNumber(r, pages)
    IN  [status |-> "ok",
         result |-> {seq[k] : k \in 1 .. Len(seq)},
         total_cars |-> Len(seq),
         per_page |-> per,
         num_pages |-> pages,
         number |-> number,
         page |-> PageSlice(seq, number, per),
         facets |-> Facets(db)]

\* everything the view may answer to request r on table db
ListResponses(db, r) ==
    IF FilterRaises(r) THEN {[status |-> "error"]}
    ELSE {Context(db, r, seq) : seq \in Orderings(db, Filtered(db, r), Ordering(r))}

\* one GET of /cars/, by a reader who is not looking at a listing
CarListView(r) ==
    /\ resp.status = "none"
    /\ \E out \in ListResponses(cars, r) :
          /\ resp' = out
          /\ book' = IF out.status = "ok" /\ out.number = 1 THEN <<out.page>> ELSE <<>>
    /\ req' = r
    /\ UNCHANGED <<images, inst, pc, saved, cars, leadVars, relVars, reading>>

\* the reader is done with the answer (the rendered page, or the error page)
CloseListing ==
    /\ resp.status # "none"
    /\ req' = <<>>
    /\ resp' = [status |-> "none"]
    /\ book' = <<>>
    /\ UNCHANGED <<images, inst, pc, saved, cars, leadVars, relVars, reading>>

\* the reader follows the link to the next page of the listing just shown
\* (same parameters, page = number + 1): one more GET, one more page query
TurnPage ==
    /\ resp.status = "ok"
    /\ book # <<>>
    /\ Len(book) = resp.number
    /\ resp.number < resp.num_pages
    /\ \E p \in {<<"1">>, <<"2">>, <<"3">>} :
          /\ ParseInt(p).val = resp.number + 1
          /\ LET r == ("page" :> p) @@ req
             IN  /\ \E out \in ListResponses(cars, r) :
                       /\ resp' = out
                       /\ book' = Append(book, out.page)
                 /\ req' = r
    /\ UNCHANGED <<images, inst, pc, saved, cars, leadVars, relVars, reading>>

-----------------------------------------------------------------------------
(* The requests of the two listing specifications *)

NoParams == <<>>

\* parameter k absent, or present with one of the given texts
Optional(k, texts) == {NoParams} \cup {k :> v : v \in texts}

\* texts tried for each parameter in the filter specification
CatalogTexts ==
    ("brand" :> {<<"1">>, <<"x">>, <<>>}) @@
    ("model" :> {<<"2">>, <<"x">>}) @@
    ("year" :> {<<"2","0","2","0">>, <<"2","0","2","x">>}) @@
    ("car_type" :> {T_new}) @@
    ("condition" :> {T_good}) @@
    ("transmission" :> {T_manual}) @@
    ("fuel_type" :> {T_petrol}) @@
    ("color" :> {<<"R","E">>}) @@
    ("min_price" :> {<<"2">>, <<"x">>}) @@
    ("max_price" :> {<<"2">>, <<"2","x">>}) @@
    ("mileage" :> {<<"1","0">>, <<"2","0">>, <<"9","9">>}) @@
    ("availability" :> {M_sale, M_rent, M_all}) @@
    ("search" :> {<<"a","m">>, <<"E","A">>, <<"R","A","R">>}) @@
    ("sort" :> {Desc(F_price), F_year, F_mileage, <<"z">>}) @@
    ("per_page" :> {<<"1","5">>, <<"7">>}) @@
    ("page" :> {<<"2">>, <<"x">>})

OneParam == UNION {{k :> v : v \in CatalogTexts[k]} : k \in DOMAIN CatalogTexts}

\* requests with at most two parameters
CatalogRequests ==
    {NoParams} \cup OneParam
    \cup {a @@ b : a \in OneParam, b \in OneParam}

\* requests of the pagination specification: sort, page size, page number and
\* the availability mode, each present or not
PageRequests ==
    {a @@ b @@ c @@ d :
        a \in Optional("sort", {F_price, Desc(F_price), Desc(F_year), F_mileage, <<"z">>}),
        b \in Optional("per_page", {<<"9">>, <<"1","5">>, <<"2","0">>, <<"1","0">>, <<"x">>}),
        c \in Optional("page", {<<"1">>, <<"2">>, <<"3">>, <<"0">>, <<"x">>}),
        d \in Optional("availability", {M_sale})}

-----------------------------------------------------------------------------
(* car_detail_view, the related Cars (views.py 213-217) *)

RelatedLimit == 4

\* related Cars that include the Car itself
RelatedCandidatesWithSelf(db, i) ==
    {j \in DOMAIN db :
        /\ db[j].brand = db[i].brand \/ db[j].car_model = db[i].car_model
        /\ db[j].status = "available"}

\* filter(Q(brand=car.brand) | Q(car_model=car.car_model), status='available')
\* .exclude(id=car.id)
RelatedCandidates(db, i) ==
    {j \in DOMAIN db :
        /\ db[j].brand = db[i].brand \/ db[j].car_model = db[i].car_model
        /\ db[j].status = "available"
        /\ j # i}

\* [:4] of the default ordering -created_at: the newest rows, four at most
Newest(rows, n) == {j \in rows : Cardinality({k \in rows : k > j}) < n}

RelatedCars(db, i) == Newest(RelatedCandidates(db, i), RelatedLimit)

AddDetailCar ==
    /\ Len(cars) < MaxDetailCars
    /\ \E row \in CatalogRows : AddCar(row)

\* GET of a Car's detail page: the Car and its related Cars
CarDetailView ==
    /\ \E i \in DOMAIN cars :
          reading' = [kind |-> "detail", car |-> i, related |-> RelatedCars(cars, i)]
    /\ UNCHANGED <<images, inst, pc, saved, cars, req, resp, book, leadVars, relVars>>

-----------------------------------------------------------------------------
(* Derived attributes of a Car: final_price and monthly_rent_estimate
   (models.py 181-191), read from a Car loaded from the store *)

\* selling_price and dealer_discount values an administrator enters
SellingPrices == {1000000, 500000}
DealerDiscounts == {0, 200000, 1200000}

\* a final price that stops at zero
FinalPriceClamped(row) ==
    IF row.selling_price < row.dealer_discount THEN 0
    ELSE row.selling_price - row.dealer_discount

\* Car.final_price
FinalPrice(row) == row.selling_price - row.dealer_discount

\* Decimal * float: Decimal.__mul__ and float.__rmul__ both return
\* NotImplemented, so the product raises TypeError whatever the operands
DecimalTimesFloat(d) == [kind |-> "raises", cents |-> 0]

\* Car.monthly_rent_estimate: selling_price and dealer_discount are
\* DecimalFields, so final_price is a Decimal and 0.03 is a float
MonthlyRentEstimate(row) ==
    IF row.is_for_rent THEN DecimalTimesFloat(FinalPrice(row))
    ELSE [kind |-> "none", cents |-> 0]

\* an administrator creates a Car with a price, a discount and a rental flag
AddPricedCar ==
    /\ Len(cars) < MaxPricedCars
    /\ \E price \in SellingPrices, discount \in DealerDiscounts, rent \in BOOLEAN :
          AddCar([RowA EXCEPT !.selling_price = price, !.dealer_discount = discount,
                              !.is_for_rent = rent])

\* an administrator changes the price and the discount of a Car
UpdatePricing ==
    /\ \E i \in DOMAIN cars, price \in SellingPrices, discount \in DealerDiscounts :
          /\ <<price, discount>> # <<cars[i].selling_price, cars[i].dealer_discount>>
          /\ cars' = [cars EXCEPT ![i].selling_price = price,
                                  ![i].dealer_discount = discount]
    /\ reading' = [kind |-> "none"]
    /\ UNCHANGED <<images, inst, pc, saved, req, resp, book, leadVars, relVars>>

\* car.final_price is read on the Car as stored
ReadFinalPrice ==
    /\ \E i \in DOMAIN cars :
          reading' = [kind |-> "final_price", car |-> i, value |-> FinalPrice(cars[i])]
    /\ UNCHANGED <<images, inst, pc, saved, cars, req, resp, book, leadVars, relVars>>

\* car.monthly_rent_estimate is read on the Car as stored
ReadMonthlyRentEstimate ==
    /\ \E i \in DOMAIN cars :
          reading' = [kind |-> "monthly_rent_estimate", car |-> i,
                      result |-> MonthlyRentEstimate(cars[i])]
    /\ UNCHANGED <<images, inst, pc, saved, cars, req, resp, book, leadVars, relVars>>

-----------------------------------------------------------------------------
(* Lead capture: InquiryForm and TestDriveForm (forms.py), and the POST branch
   of car_detail_view (views.py 219-240) *)

LeadCars == {1}       \* the Cars leads are about; 0 stands for no Car (None)

E_a == <<"a","@","x",".","c","o">>
E_b == <<"b","@","x",".","c","o">>
E_noat == <<"a","x",".","c","o">>
N_ann == <<"A","n","n">>
N_bob == <<"B","o","b">>
N_lee == <<"L","e","e">>
P_kenya == <<"+","2","5","4","7","0","0","0","0","0","0","0","0">>
P_short == <<"1","2","3","4","5">>
P_us == <<"+","1","2","0","2","5","5","5","0","1","2","3">>
N_roe == <<"R","o","e">>
L_1 == <<"L","1">>
L_2 == <<"L","2">>

\* the two people who submit: Ann Lee and Bob Roe, each with a phone
LastNameOf(first) == IF first = N_ann THEN N_lee ELSE N_roe
PhoneOf(first) == IF first = N_ann THEN P_kenya ELSE P_us

\* the submitted fields; an InquiryForm has no driving_license_number field
InquiryData(first, email) ==
    [kind |-> "inquiry", first_name |-> first, last_name |-> LastNameOf(first),
     email |-> email, phone |-> PhoneOf(first), driving_license_number |-> <<>>]

TestDriveData(first, email, license) ==
    [kind |-> "test_drive", first_name |-> first, last_name |-> LastNameOf(first),
     email |-> email, phone |-> PhoneOf(first), driving_license_number |-> license]

ValidForms ==
    {InquiryData(f, e) : f \in {N_ann, N_bob}, e \in {E_a, E_b}}
    \cup {TestDriveData(f, e, l) : f \in {N_ann, N_bob}, e \in {E_a, E_b}, l \in {L_1, L_2}}

\* one submission of each kind, with one field left out or malformed
DefectiveForms ==
    UNION {{[base EXCEPT !.first_name = <<>>],
            [base EXCEPT !.last_name = <<>>],
            [base EXCEPT !.email = <<>>],
            [base EXCEPT !.email = E_noat],
            [base EXCEPT !.phone = <<>>],
            [base EXCEPT !.phone = P_short]} :
                base \in {InquiryData(N_ann, E_a), TestDriveData(N_ann, E_a, L_1)}}
    \cup {TestDriveData(N_ann, E_a, <<>>)}

Forms == ValidForms \cup DefectiveForms

\* the submissions that race: two kinds, two emails, one of them rejected
RaceForms ==
    {InquiryData(N_ann, E_a), TestDriveData(N_bob, E_a, L_1), InquiryData(N_bob, E_b),
     [InquiryData(N_ann, E_a) EXCEPT !.phone = P_short]}

\* the text from position a on
From(s, a) == SubSeq(s, a, Len(s))

\* positions of character ch in s
Positions(s, ch) == {j \in 1 .. Len(s) : s[j] = ch}

\* EmailValidator, in outline: a non-empty user part, an '@', and a domain
\* with a dot that is neither its first nor its last character
EmailOk(s) ==
    /\ Positions(s, "@") # {}
    /\ LET at     == SetMax(Positions(s, "@"))
           user   == SubSeq(s, 1, at - 1)
           domain == From(s, at + 1)
       IN  /\ user # <<>>
           /\ Positions(user, "@") = {}
           /\ Positions(domain, ".") # {}
           /\ domain[1] # "." /\ domain[Len(domain)] # "."

\* 9 to 15 digits and nothing else
NineToFifteenDigits(s) ==
    /\ Len(s) >= 9 /\ Len(s) <= 15
    /\ \A j \in 1 .. Len(s) : s[j] \in DOMAIN DigitOf

\* a phone check that accepts any non-empty text
PhoneOkAnything(s) == s # <<>>

\* phone_regex  ^\+?1?\d{9,15}$ : an optional '+', an optional '1', 9 to 15 digits
PhoneOk(s) ==
    LET a == IF s # <<>> /\ s[1] = "+" THEN Tail(s) ELSE s
    IN  \/ NineToFifteenDigits(a)
        \/ a # <<>> /\ a[1] = "1" /\ NineToFifteenDigits(Tail(a))

\* form.errors: the fields that fail validation
FormErrors(form) ==
    {f \in {"first_name", "last_name", "email", "phone"} : form[f] = <<>>}
    \cup (IF form.email # <<>> /\ ~EmailOk(form.email) THEN {"email"} ELSE {})
    \cup (IF form.phone # <<>> /\ ~PhoneOk(form.phone) THEN {"phone"} ELSE {})
    \cup (IF form.kind = "test_drive" /\ form.driving_license_number = <<>>
          THEN {"driving_license_number"} ELSE {})

\* form.is_valid()
IsValid(form) == FormErrors(form) = {}

NoData ==
    [kind |-> "none", first_name |-> <<>>, last_name |-> <<>>, email |-> <<>>,
     phone |-> <<>>, driving_license_number |-> <<>>]

NoCustomer ==
    [email |-> <<>>, first_name |-> <<>>, last_name |-> <<>>, phone |-> <<>>,
     driving_license_number |-> <<>>]

\* lead[c]: where the request is, its form, its Car, and the Customer object it holds
NoLead == [pc |-> "idle", form |-> NoData, car |-> 0, customer |-> 0, object |-> NoCustomer]

NoOutcome == [result |-> "none"]

\* a lookup that never finds a Customer
CustomersWithEmailNone(table, email) == {}

\* Customer.objects.filter(email=email)
CustomersWithEmail(table, email) == {i \in DOMAIN table : table[i].email = email}

\* get_or_create's defaults: the row a new Customer gets
NewCustomer(form) ==
    [email |-> form.email, first_name |-> form.first_name, last_name |-> form.last_name,
     phone |-> form.phone, driving_license_number |-> form.driving_license_number]

\* a save that writes the licence of every TestDrive
NeedsBackfillAlways(form, object) == form.kind = "test_drive"

\* a save that never fills in the licence
NeedsBackfillNever(form, object) == FALSE

\* forms.py 209-212: a TestDrive finds the Customer without a licence number
NeedsBackfill(form, object) ==
    form.kind = "test_drive" /\ object.driving_license_number = <<>>

\* the statement that follows once the Customer object is in hand
AfterCustomer(form, object) == IF NeedsBackfill(form, object) THEN "backfill" ELSE "insert"

\* requests that passed validation and have not finished
InFlight == Cardinality({c \in Callers : lead[c].pc # "idle"})

\* Inquiry.save() / TestDrive.save(): car and customer are NOT NULL foreign keys
InsertRaises(car, customer) == car = 0 \/ customer = 0

LeadTable(kind) == IF kind = "inquiry" THEN inquiries ELSE test_drives

\* form.save(commit=True) is called on a form built with car=car: an invalid
\* form raises before anything is written, a valid one goes on to get_or_create
LeadSave(c, forms) ==
    /\ lead[c].pc = "idle"
    /\ outcome[c].result = "none"
    /\ \E form \in forms, car \in LeadCars \cup {0} :
          IF IsValid(form)
          THEN /\ Len(subs) + InFlight < MaxLeads
               /\ lead' = [lead EXCEPT ![c] = [NoLead EXCEPT !.pc = "lookup", !.form = form,
                                                              !.car = car]]
               /\ outcome' = outcome
          ELSE /\ lead' = lead
               /\ outcome' = [outcome EXCEPT ![c] =
                     [result |-> "invalid", entry |-> "form", kind |-> form.kind,
                      form |-> form, errors |-> FormErrors(form)]]
    /\ UNCHANGED <<customers, inquiries, test_drives, subs>>
    /\ UNCHANGED <<images, inst, pc, saved, cars, req, resp, book, reading, relVars>>

\* a finished request that passed validation
Finish(c, result, row) ==
    /\ outcome' = [outcome EXCEPT ![c] =
          [result |-> result, entry |-> "form", kind |-> lead[c].form.kind,
           form |-> lead[c].form, email |-> lead[c].form.email, car |-> lead[c].car, row |-> row,
           customer |-> lead[c].customer]]
    /\ subs' = Append(subs, [kind |-> lead[c].form.kind, form |-> lead[c].form,
                             car |-> lead[c].car, row |-> row,
                             customer |-> lead[c].customer])
    /\ lead' = [lead EXCEPT ![c] = NoLead]

\* get_or_create, the get: one row -> that Customer, none -> create,
\* several -> MultipleObjectsReturned
LeadLookup(c) ==
    /\ lead[c].pc = "lookup"
    /\ LET found == CustomersWithEmail(customers, lead[c].form.email)
       IN  IF found = {}
           THEN /\ lead' = [lead EXCEPT ![c].pc = "create"]
                /\ UNCHANGED <<outcome, subs>>
           ELSE IF Cardinality(found) = 1
           THEN LET id == CHOOSE i \in found : TRUE
                IN  /\ lead' = [lead EXCEPT ![c].customer = id,
                                            ![c].object = customers[id],
                                            ![c].pc = AfterCustomer(lead[c].form, customers[id])]
                    /\ UNCHANGED <<outcome, subs>>
           ELSE Finish(c, "error", 0)
    /\ UNCHANGED <<customers, inquiries, test_drives>>
    /\ UNCHANGED <<images, inst, pc, saved, cars, req, resp, book, reading, relVars>>

\* get_or_create, the create: Customer.email carries no unique constraint, so
\* the INSERT always goes through
LeadCreate(c) ==
    /\ lead[c].pc = "create"
    /\ LET row == NewCustomer(lead[c].form)
       IN  /\ customers' = Append(customers, row)
           /\ lead' = [lead EXCEPT ![c].customer = Len(customers) + 1,
                                   ![c].object = row,
                                   ![c].pc = AfterCustomer(lead[c].form, row)]
    /\ UNCHANGED <<inquiries, test_drives, outcome, subs>>
    /\ UNCHANGED <<images, inst, pc, saved, cars, req, resp, book, reading, relVars>>

\* forms.py 211-212: the licence is set on the object and customer.save()
\* writes the object's row
LeadBackfill(c) ==
    /\ lead[c].pc = "backfill"
    /\ LET object == [lead[c].object EXCEPT
                         !.driving_license_number = lead[c].form.driving_license_number]
       IN  /\ customers' = [customers EXCEPT ![lead[c].customer] = object]
           /\ lead' = [lead EXCEPT ![c].object = object, ![c].pc = "insert"]
    /\ UNCHANGED <<inquiries, test_drives, outcome, subs>>
    /\ UNCHANGED <<images, inst, pc, saved, cars, req, resp, book, reading, relVars>>

\* inquiry.save() / test_drive.save(): the lead row is inserted, or the store
\* refuses it (IntegrityError) when it has no Car
LeadInsert(c) ==
    /\ lead[c].pc = "insert"
    /\ LET kind == lead[c].form.kind
           row  == [car |-> lead[c].car, customer |-> lead[c].customer]
       IN  IF InsertRaises(lead[c].car, lead[c].customer)
           THEN /\ Finish(c, "error", 0)
                /\ UNCHANGED <<inquiries, test_drives>>
           ELSE /\ Finish(c, "saved", Len(LeadTable(kind)) + 1)
                /\ inquiries' = IF kind = "inquiry" THEN Append(inquiries, row) ELSE inquiries
                /\ test_drives' = IF kind = "test_drive" THEN Append(test_drives, row)
                                  ELSE test_drives
    /\ UNCHANGED customers
    /\ UNCHANGED <<images, inst, pc, saved, cars, req, resp, book, reading, relVars>>

\* car_detail_view, POST (views.py 223-240): the form is built from request.POST
\* alone; a valid form is saved with commit=False, which skips get_or_create,
\* the Car is attached and the row is saved with no Customer
DetailPost(c, forms) ==
    /\ lead[c].pc = "idle"
    /\ outcome[c].result = "none"
    /\ \E form \in forms, car \in LeadCars :
          outcome' = [outcome EXCEPT ![c] =
              IF ~IsValid(form)
              THEN [result |-> "invalid", entry |-> "view", kind |-> form.kind,
                    form |-> form, errors |-> FormErrors(form)]
              ELSE IF InsertRaises(car, 0)
              THEN [result |-> "error", entry |-> "view", kind |-> form.kind,
                    form |-> form, email |-> form.email, car |-> car, row |-> 0, customer |-> 0]
              ELSE [result |-> "saved", entry |-> "view", kind |-> form.kind,
                    form |-> form, email |-> form.email, car |-> car, row |-> 0, customer |-> 0]]
    /\ UNCHANGED <<customers, inquiries, test_drives, lead, subs>>
    /\ UNCHANGED <<images, inst, pc, saved, cars, req, resp, book, reading, relVars>>

\* the caller has its answer and is free to submit again
LeadDone(c) ==
    /\ outcome[c].result # "none"
    /\ outcome' = [outcome EXCEPT ![c] = NoOutcome]
    /\ UNCHANGED <<customers, inquiries, test_drives, lead, subs>>
    /\ UNCHANGED <<images, inst, pc, saved, cars, req, resp, book, reading, relVars>>

LeadStep(c, forms) ==
    \/ LeadSave(c, forms) \/ LeadLookup(c) \/ LeadCreate(c) \/ LeadBackfill(c)
    \/ LeadInsert(c) \/ DetailPost(c, forms) \/ LeadDone(c)

-----------------------------------------------------------------------------
(* The keyed store: Category, Brand, CarModel, Car, Customer and the rows that
   hang off a Car (models.py), with the constraints the store enforces *)

CategoryIds == {1}
BrandIds == {1, 2}
ModelIds == {1}
CarIds == 1 .. MaxStoreCars
CustomerIds == {1}

NoRows ==
    [category |-> {}, brand |-> {}, car_model |-> <<>>, car |-> <<>>,
     customer |-> {}, dependent |-> {}]

NoDone ==
    [op |-> "none", table |-> "none", id |-> 0, result |-> "none", removed |-> 0,
     no_title |-> FALSE, no_slug |-> FALSE]

\* a table without the rows whose keys are in ids
Except(table, ids) == [k \in DOMAIN table \ ids |-> table[k]]

\* a table with row under key k, inserted or replaced
With(table, k, row) == [j \in DOMAIN table \cup {k} |-> IF j = k THEN row ELSE table[j]]

DigitChar == <<"0", "1", "2", "3", "4", "5", "6", "7", "8", "9">>

\* str(n) of a natural number
RECURSIVE FormatNat(_)
FormatNat(n) ==
    IF n < 10 THEN <<DigitChar[n + 1]>>
    ELSE FormatNat(n \div 10) \o <<DigitChar[(n % 10) + 1]>>

\* \w of the slugify patterns: letters, digits and the underscore
WordChars ==
    {"a", "c", "d", "e", "m", "r", "b", "A", "C", "D", "E", "M", "R", "B", "_"}
    \cup DOMAIN DigitOf

\* [-\s] of the slugify patterns
DashOrSpace == {"-", " "}

\* value.lower()
Lower(s) == [j \in 1 .. Len(s) |-> LowerCh(s[j])]

\* re.sub(r'[^\w\s-]', '', value)
RECURSIVE KeepSlugChars(_)
KeepSlugChars(s) ==
    IF s = <<>> THEN <<>>
    ELSE IF Head(s) \in WordChars \cup DashOrSpace
    THEN <<Head(s)>> \o KeepSlugChars(Tail(s))
    ELSE KeepSlugChars(Tail(s))

\* re.sub(r'[-\s]+', '-', value)
RECURSIVE DashRuns(_)
DashRuns(s) ==
    IF s = <<>> THEN <<>>
    ELSE IF Head(s) \in DashOrSpace
    THEN IF Len(s) > 1 /\ s[2] \in DashOrSpace THEN DashRuns(Tail(s))
         ELSE <<"-">> \o DashRuns(Tail(s))
    ELSE <<Head(s)>> \o DashRuns(Tail(s))

\* value.strip('-_')
RECURSIVE Strip(_)
Strip(s) ==
    IF s = <<>> THEN <<>>
    ELSE IF Head(s) \in {"-", "_"} THEN Strip(Tail(s))
    ELSE IF s[Len(s)] \in {"-", "_"} THEN Strip(SubSeq(s, 1, Len(s) - 1))
    ELSE s

\* django.utils.text.slugify on ASCII text
Slugify(s) == Strip(DashRuns(KeepSlugChars(Lower(s))))

\* f"{self.year} {self.brand.name} {self.car_model.name}"
DefaultTitle(row) ==
    FormatNat(row.year) \o <<" ">> \o BrandName[row.brand] \o <<" ">> \o ModelName[row.car_model]

\* Car.save, lines 214-218: an empty title and an empty slug are filled in
WithTitleAndSlug(row) ==
    LET titled == IF row.title = <<>> THEN [row EXCEPT !.title = DefaultTitle(row)] ELSE row
    IN  IF titled.slug = <<>>
        THEN [titled EXCEPT !.slug = Slugify(titled.title \o <<"-">> \o titled.stock_number)]
        ELSE titled

\* a store that checks the stock number and the VIN but not the slug
CarConflictNoSlug(r, id, row) ==
    \E k \in DOMAIN r.car \ {id} :
        \/ r.car[k].stock_number = row.stock_number
        \/ row.vin_number # <<>> /\ r.car[k].vin_number = row.vin_number

\* the unique columns of Car: stock_number, vin_number (NULLs never clash), slug
CarConflict(r, id, row) ==
    \E k \in DOMAIN r.car \ {id} :
        \/ r.car[k].stock_number = row.stock_number
        \/ row.vin_number # <<>> /\ r.car[k].vin_number = row.vin_number
        \/ r.car[k].slug = row.slug

S_a1 == <<"A", "-", "1">>
S_a_1 == <<"A", " ", "1">>
S_b2 == <<"B", "/", "2">>
V_1 == <<"V", "1">>
T_dear == <<"D","e","a","r">>
G_old == <<"o","l","d">>

\* what an administrator types for a Car; a VIN is a sequence of zero (NULL)
\* or one text
CarData(stock, vin, title, slug) ==
    [brand |-> 1, car_model |-> 1, year |-> 2020, stock_number |-> stock,
     vin_number |-> vin, title |-> title, slug |-> slug]

\* Cars with and without a title, a slug and a VIN; the first two differ in
\* their stock number only by a space for a hyphen
CarForms ==
    {CarData(S_a1, <<>>, <<>>, <<>>),
     CarData(S_a_1, <<>>, <<>>, <<>>),
     CarData(S_b2, <<V_1>>, T_dear, <<>>),
     CarData(S_a1, <<V_1>>, T_dear, G_old),
     CarData(S_a_1, <<>>, <<>>, G_old)}

\* the smallest key not in use
FreeKey(used, pool) == CHOOSE k \in pool \ used : \A j \in pool \ used : k <= j

\* Car.save(): the title and the slug are completed, then the row is
\* inserted (id = 0) or updated; the store refuses a row that repeats a unique
\* column and then nothing is written
SaveCar(forms) ==
    /\ \E id \in DOMAIN rel.car \cup {0}, given \in forms :
          LET row == WithTitleAndSlug(given)
              key == IF id # 0 THEN id ELSE FreeKey(DOMAIN rel.car, CarIds)
          IN  /\ given.brand \in rel.brand
              /\ given.car_model \in DOMAIN rel.car_model
              /\ id = 0 => DOMAIN rel.car # CarIds
              /\ IF CarConflict(rel, key, row)
                 THEN /\ rel' = rel
                      /\ done' = [op |-> "save", table |-> "Car", id |-> key,
                                  result |-> "IntegrityError", removed |-> 0,
                                  no_title |-> FALSE, no_slug |-> FALSE]
                 ELSE /\ rel' = [rel EXCEPT !.car = With(@, key, row)]
                      /\ done' = [op |-> "save", table |-> "Car", id |-> key,
                                  result |-> "ok", removed |-> 0,
                                  no_title |-> given.title = <<>>,
                                  no_slug |-> given.slug = <<>>]
    /\ UNCHANGED <<images, inst, pc, saved, cars, req, resp, book, leadVars, reading>>

\* Brand.objects.create
CreateBrand ==
    /\ \E id \in BrandIds \ rel.brand : rel' = [rel EXCEPT !.brand = @ \cup {id}]
    /\ done' = NoDone
    /\ UNCHANGED <<images, inst, pc, saved, cars, req, resp, book, leadVars, reading>>

\* CarModel.objects.create: brand is a Brand, category a Category or NULL (0)
CreateCarModel ==
    /\ \E id \in ModelIds \ DOMAIN rel.car_model, brand \in rel.brand,
          category \in rel.category \cup {0} :
          rel' = [rel EXCEPT !.car_model =
                      With(@, id, [brand |-> brand, category |-> category])]
    /\ done' = NoDone
    /\ UNCHANGED <<images, inst, pc, saved, cars, req, resp, book, leadVars, reading>>

\* Customer.objects.create
CreateCustomer ==
    /\ \E id \in CustomerIds \ rel.customer : rel' = [rel EXCEPT !.customer = @ \cup {id}]
    /\ done' = NoDone
    /\ UNCHANGED <<images, inst, pc, saved, cars, req, resp, book, leadVars, reading>>

\* an empty store is given one Brand, one CarModel of it and one Customer
LoadFixtures ==
    /\ rel = NoRows
    /\ rel' = [NoRows EXCEPT !.brand = {1}, !.customer = {1},
                             !.car_model = With(<<>>, 1, [brand |-> 1, category |-> 0])]
    /\ done' = NoDone
    /\ UNCHANGED <<images, inst, pc, saved, cars, req, resp, book, leadVars, reading>>

\* the tables whose rows belong to a Car, and those of them that also belong
\* to a Customer
CarTables == {"CarImage", "RentalRate", "Inquiry", "Rental", "TestDrive", "Sale"}
CustomerTables == {"Inquiry", "Rental", "TestDrive", "Sale"}

RateTypes == {"daily", "weekly"}

\* the rows of one table
RowsOf(r, table) == {d \in r.dependent : d.table = table}

\* a store that lets any row in
DependentConflictNever(r, row) == FALSE

\* Sale.car is one-to-one; RentalRate is unique together on (car, rate_type)
DependentConflict(r, row) ==
    \/ row.table = "Sale" /\ \E d \in RowsOf(r, "Sale") : d.car = row.car
    \/ row.table = "RentalRate" /\
           \E d \in RowsOf(r, "RentalRate") : d.car = row.car /\ d.rate_type = row.rate_type

\* a row of one of the tables is created for a Car (and a Customer); the store
\* refuses a second Sale of a Car and a second RentalRate of a (car, rate_type)
CreateDependent(tables) ==
    /\ \E table \in tables, car \in DOMAIN rel.car, customer \in rel.customer \cup {0},
          rate_type \in RateTypes \cup {"none"} :
          LET used == {d.id : d \in RowsOf(rel, table)}
              row  == [table |-> table, id |-> FreeKey(used, 1 .. MaxDependents),
                       car |-> car, customer |-> customer, rate_type |-> rate_type]
          IN  /\ (customer # 0) = (table \in CustomerTables)
              /\ (rate_type # "none") = (table = "RentalRate")
              /\ Cardinality(rel.dependent) < MaxDependents
              /\ IF DependentConflict(rel, row)
                 THEN /\ rel' = rel
                      /\ done' = [NoDone EXCEPT !.op = "save", !.table = table,
                                                !.result = "IntegrityError"]
                 ELSE /\ rel' = [rel EXCEPT !.dependent = @ \cup {row}]
                      /\ done' = [NoDone EXCEPT !.op = "save", !.table = table,
                                                !.result = "ok"]
    /\ UNCHANGED <<images, inst, pc, saved, cars, req, resp, book, leadVars, reading>>

\* Category.objects.create
CreateCategory ==
    /\ \E id \in CategoryIds \ rel.category : rel' = [rel EXCEPT !.category = @ \cup {id}]
    /\ done' = NoDone
    /\ UNCHANGED <<images, inst, pc, saved, cars, req, resp, book, leadVars, reading>>

\* the Cars of the delete specification: two stock numbers, either Brand
CascadeCarForms ==
    {[form EXCEPT !.brand = b] :
        form \in {CarData(S_a1, <<>>, <<>>, <<>>), CarData(S_b2, <<V_1>>, T_dear, <<>>)},
        b \in BrandIds}

\* a delete of Cars that leaves the rows of their tables behind
DeleteCarsAlone(r, ids) == [r EXCEPT !.car = Except(@, ids)]

\* Cars go with every row whose car is on_delete=CASCADE: CarImage, RentalRate,
\* Inquiry, Rental, TestDrive, Sale
DeleteCars(r, ids) ==
    [r EXCEPT !.car = Except(@, ids),
              !.dependent = {d \in @ : d.car \notin ids}]

\* CarModels go with the Cars whose car_model is on_delete=CASCADE
DeleteCarModels(r, ids) ==
    DeleteCars([r EXCEPT !.car_model = Except(@, ids)],
               {c \in DOMAIN r.car : r.car[c].car_model \in ids})

\* Brands go with their CarModels and with the Cars whose brand they are
DeleteBrands(r, ids) ==
    LET models == {m \in DOMAIN r.car_model : r.car_model[m].brand \in ids}
        cars_  == {c \in DOMAIN r.car : r.car[c].brand \in ids}
    IN  [DeleteCars(DeleteCarModels(r, models), cars_) EXCEPT !.brand = @ \ ids]

\* CarModel.category is on_delete=SET_NULL
DeleteCategories(r, ids) ==
    [r EXCEPT !.category = @ \ ids,
              !.car_model = [m \in DOMAIN r.car_model |->
                                IF r.car_model[m].category \in ids
                                THEN [r.car_model[m] EXCEPT !.category = 0]
                                ELSE r.car_model[m]]]

\* Customers go with their Inquiries, Rentals, TestDrives and Sales
DeleteCustomers(r, ids) ==
    [r EXCEPT !.customer = @ \ ids,
              !.dependent = {d \in @ : d.customer \notin ids}]

\* the number of rows in the store
RowCount(r) ==
    Cardinality(r.category) + Cardinality(r.brand) + Cardinality(DOMAIN r.car_model)
    + Cardinality(DOMAIN r.car) + Cardinality(r.customer) + Cardinality(r.dependent)

\* obj.delete(): the store after the delete, and what is reported
Deleted(table, id, after) ==
    /\ rel' = after
    /\ done' = [NoDone EXCEPT !.op = "delete", !.table = table, !.id = id,
                              !.result = "ok", !.removed = RowCount(rel) - RowCount(after)]
    /\ UNCHANGED <<images, inst, pc, saved, cars, req, resp, book, leadVars, reading>>

DeleteCategory == \E id \in rel.category : Deleted("Category", id, DeleteCategories(rel, {id}))

DeleteBrand == \E id \in rel.brand : Deleted("Brand", id, DeleteBrands(rel, {id}))

DeleteCarModel ==
    \E id \in DOMAIN rel.car_model : Deleted("CarModel", id, DeleteCarModels(rel, {id}))

DeleteCar == \E id \in DOMAIN rel.car : Deleted("Car", id, DeleteCars(rel, {id}))

DeleteCustomer == \E id \in rel.customer : Deleted("Customer", id, DeleteCustomers(rel, {id}))

DeleteDependent ==
    \E d \in rel.dependent : Deleted(d.table, d.id, [rel EXCEPT !.dependent = @ \ {d}])

-----------------------------------------------------------------------------
NoResp == [status |-> "none"]
NoReading == [kind |-> "none"]

Init ==
    /\ images = <<>>
    /\ inst = [c \in Callers |-> NoInst]
    /\ pc = [c \in Callers |-> "idle"]
    /\ saved = [c \in Callers |-> NoInst]
    /\ cars = <<>>
    /\ req = <<>>
    /\ resp = NoResp
    /\ book = <<>>
    /\ customers = <<>>
    /\ inquiries = <<>>
    /\ test_drives = <<>>
    /\ lead = [c \in Callers |-> NoLead]
    /\ outcome = [c \in Callers |-> NoOutcome]
    /\ subs = <<>>
    /\ reading = NoReading
    /\ rel = NoRows
    /\ done = NoDone

\* two callers saving images concurrently
NextImg == \E c \in Callers : SaveClearOthers(c, {0}) \/ SaveWriteRow(c)
SpecImg == Init /\ [][NextImg]_vars

\* one caller: saves run one after another
NextImgSeq == SaveClearOthers(1, {0, 1}) \/ SaveWriteRow(1) \/ ReadMainImage
SpecImgSeq == Init /\ [][NextImgSeq]_vars

\* the catalog: cars come in, listings are requested with filters
NextCatalog ==
    AddCatalogCar \/ (\E r \in CatalogRequests : CarListView(r)) \/ CloseListing
SpecCatalog == Init /\ [][NextCatalog]_vars

\* paging through listings of a larger catalog
NextPages ==
    AddPageCar \/ (\E r \in PageRequests : CarListView(r)) \/ TurnPage \/ CloseListing
SpecPages == Init /\ [][NextPages]_vars

\* Cars are added and detail pages are opened
NextDetail == AddDetailCar \/ CarDetailView
SpecDetail == Init /\ [][NextDetail]_vars

\* prices are entered, changed and read
NextPricing == AddPricedCar \/ UpdatePricing \/ ReadFinalPrice \/ ReadMonthlyRentEstimate
SpecPricing == Init /\ [][NextPricing]_vars

\* Cars, Sales and RentalRates are written to a store with one Brand
NextInventory ==
    LoadFixtures \/ SaveCar(CarForms) \/ CreateDependent({"Sale", "RentalRate"})
SpecInventory == Init /\ [][NextInventory]_vars

\* rows of every table are created and deleted
CreateRow ==
    /\ RowCount(rel) < MaxStoreRows
    /\ \/ CreateCategory \/ CreateBrand \/ CreateCarModel \/ CreateCustomer
       \/ SaveCar(CascadeCarForms) \/ CreateDependent(CarTables)

NextCascade ==
    \/ CreateRow
    \/ DeleteCategory \/ DeleteBrand \/ DeleteCarModel \/ DeleteCar \/ DeleteCustomer
    \/ DeleteDependent
SpecCascade == Init /\ [][NextCascade]_vars

\* lead capture, one request after the other
NextLeadsSeq == LeadStep(1, Forms)
SpecLeadsSeq == Init /\ [][NextLeadsSeq]_vars

\* lead capture, two requests at a time
NextLeads == \E c \in Callers : LeadStep(c, RaceForms)
SpecLeads == Init /\ [][NextLeads]_vars

-----------------------------------------------------------------------------
(* Properties: CarImage *)

AtMostOneMain == \A car \in ImageCars : Cardinality(MainImages(images, car)) <= 1

\* C1: with two callers saving images of the same Car concurrently, at most one
\* image of a Car is the main image in every reachable state, also between the
\* two statements of a save.
C1_SingleMainUnderConcurrency == AtMostOneMain

\* C2: with one caller, after every finished save each Car has at most one main
\* image, and a save with is_main = true leaves the saved image as the only main
\* image of its Car.
C2_SingleMainAfterSave ==
    pc[1] = "idle" =>
        /\ AtMostOneMain
        /\ saved[1].is_main => MainImages(images, saved[1].car) = {saved[1].id}

\* C2 happens: image 1 was re-saved as main while its Car has other images
C2_Witness ==
    /\ pc[1] = "idle"
    /\ saved[1].is_main
    /\ saved[1].id = 1
    /\ Cardinality({i \in ImageIds : images[i].car = saved[1].car}) >= 3
    /\ MainImages(images, saved[1].car) = {1}

-----------------------------------------------------------------------------
(* Properties: car_list_view, filters *)

\* what each parameter of a request asks of a Car row, as the contract states it
Present(r, k) == k \in DOMAIN r /\ r[k] # <<>>

Denotes(text, n) == ParseInt(text).ok /\ ParseInt(text).val = n

Satisfies(row, r) ==
    /\ Present(r, "brand") => Denotes(r["brand"], row.brand)
    /\ Present(r, "model") => Denotes(r["model"], row.car_model)
    /\ Present(r, "year") => Denotes(r["year"], row.year)
    /\ Present(r, "car_type") => row.car_type = r["car_type"]
    /\ Present(r, "condition") => row.condition = r["condition"]
    /\ Present(r, "transmission") => row.transmission = r["transmission"]
    /\ Present(r, "fuel_type") => row.fuel_type = r["fuel_type"]
    /\ Present(r, "color") => IContains(row.color, r["color"])
    /\ Present(r, "min_price") =>
          /\ ParseInt(r["min_price"]).ok
          /\ ParseInt(r["min_price"]).val <= row.selling_price
    /\ Present(r, "max_price") =>
          /\ ParseInt(r["max_price"]).ok
          /\ ParseInt(r["max_price"]).val >= row.selling_price
    /\ Present(r, "mileage") =>
          /\ r["mileage"] = <<"1","0">> => row.mileage <= 10000
          /\ r["mileage"] = <<"1","5">> => row.mileage <= 15000
          /\ r["mileage"] = <<"2","0">> => row.mileage <= 20000
          /\ r["mileage"] = <<"2","5">> => row.mileage <= 25000
          /\ r["mileage"] = <<"2","7">> => row.mileage <= 27000
    /\ Present(r, "availability") =>
          /\ r["availability"] = M_sale => row.is_for_sale
          /\ r["availability"] = M_rent => row.is_for_rent
    /\ Present(r, "search") =>
          \/ IContains(BrandName[row.brand], r["search"])
          \/ IContains(ModelName[row.car_model], r["search"])
          \/ IContains(row.title, r["search"])
          \/ IContains(row.description, r["search"])

\* C3: every Car in the result set of a listing has status available and
\* satisfies every filter parameter present in the request.
C3_ResultSatisfiesFilters ==
    resp.status = "ok" =>
        \A i \in resp.result :
            cars[i].status = "available" /\ Satisfies(cars[i], req)

\* C3 happens: two filters at once keep one car and drop another available one
C3_Witness ==
    /\ resp.status = "ok"
    /\ Cardinality({k \in DOMAIN req : Present(req, k)}) = 2
    /\ Present(req, "transmission") /\ Present(req, "max_price")
    /\ resp.result # {}
    /\ \E i \in DOMAIN cars : cars[i].status = "available" /\ i \notin resp.result
    /\ \E i \in DOMAIN cars : cars[i].status = "sold"

\* C4: the result set is exactly the available Cars that satisfy all present
\* filters; with no parameters at all it is every available Car.
C4_ResultIsExactlyTheMatches ==
    resp.status = "ok" =>
        /\ resp.result =
              {i \in DOMAIN cars : cars[i].status = "available" /\ Satisfies(cars[i], req)}
        /\ DOMAIN req = {} =>
              resp.result = {i \in DOMAIN cars : cars[i].status = "available"}

\* C4 happens: mode 'rent' keeps the car for rent and drops the one for sale only
C4_Witness ==
    /\ resp.status = "ok"
    /\ Present(req, "availability") /\ req["availability"] = M_rent
    /\ resp.result # {}
    /\ \E i \in DOMAIN cars :
          cars[i].status = "available" /\ cars[i].is_for_sale /\ i \notin resp.result

-----------------------------------------------------------------------------
(* Properties: car_list_view, sorting and pagination *)

RECURSIVE Flatten(_)
\* the pages of a book, one after the other
Flatten(pages) ==
    IF pages = <<>> THEN <<>> ELSE Head(pages) \o Flatten(Tail(pages))

NoDuplicates(seq) == \A a, b \in 1 .. Len(seq) : seq[a] = seq[b] => a = b

BookComplete == resp.status = "ok" /\ book # <<>> /\ Len(book) = resp.num_pages

\* C5: once pages 1..N of a listing have been fetched (same parameters, no write
\* in between), their concatenation holds every Car of the result set exactly
\* once, also when Cars tie on the sort key.
C5_PagesCoverResultOnce ==
    BookComplete =>
        /\ NoDuplicates(Flatten(book))
        /\ {Flatten(book)[k] : k \in 1 .. Len(Flatten(book))} = resp.result

\* the sort the contract asks for: the requested one if it is in the list, else
\* newest first
AskedField(r) ==
    IF Has(r, "sort") /\ r["sort"] \in {F_price, Desc(F_price)} THEN F_price
    ELSE IF Has(r, "sort") /\ r["sort"] \in {F_year, Desc(F_year)} THEN F_year
    ELSE IF Has(r, "sort") /\ r["sort"] \in {F_mileage, Desc(F_mileage)} THEN F_mileage
    ELSE F_created

AskedDescending(r) ==
    IF Has(r, "sort") /\ r["sort"] \in {F_price, F_year, F_mileage, F_created} THEN FALSE
    ELSE TRUE

InAskedOrder(seq, r) ==
    \A k \in 1 .. Len(seq) - 1 :
        IF AskedDescending(r)
        THEN Column(cars, seq[k], AskedField(r)) >= Column(cars, seq[k + 1], AskedField(r))
        ELSE Column(cars, seq[k], AskedField(r)) <= Column(cars, seq[k + 1], AskedField(r))

\* C6: a page, and the pages fetched so far taken together, are ordered by the
\* requested field (descending with a leading '-'); with an unknown sort value
\* or none they are ordered newest first.
C6_PagesInRequestedOrder ==
    resp.status = "ok" =>
        /\ InAskedOrder(resp.page, req)
        /\ InAskedOrder(Flatten(book), req)

\* C6 happens: two pages sorted by -selling_price, prices really going down
C6_Witness ==
    /\ BookComplete
    /\ Len(book) = 2
    /\ Has(req, "sort") /\ req["sort"] = Desc(F_price)
    /\ cars[book[1][1]].selling_price > cars[book[2][1]].selling_price

\* C7: the page size used is 9, 15 or 20: the supplied value when it is one of
\* them, 9 otherwise; no page holds more Cars than that.
C7_PageSizeFromTheFixedSet ==
    resp.status = "ok" =>
        /\ resp.per_page \in {9, 15, 20}
        /\ (Has(req, "per_page") /\ ParseInt(req["per_page"]).ok
              /\ ParseInt(req["per_page"]).val \in {9, 15, 20})
           => resp.per_page = ParseInt(req["per_page"]).val
        /\ ~(Has(req, "per_page") /\ ParseInt(req["per_page"]).ok
              /\ ParseInt(req["per_page"]).val \in {9, 15, 20})
           => resp.per_page = 9
        /\ Len(resp.page) <= resp.per_page

\* C7 happens: per_page=10 is not in the set, the page holds 9 of the 10 Cars
C7_Witness ==
    /\ resp.status = "ok"
    /\ Has(req, "per_page") /\ req["per_page"] = <<"1","0">>
    /\ resp.total_cars >= 10
    /\ Len(resp.page) = 9

\* the page number asked for lies beyond the last page
AskedBeyondLast ==
    /\ resp.status # "none"
    /\ Has(req, "page") /\ ParseInt(req["page"]).ok
    /\ ParseInt(req["page"]).val * resp.per_page >= resp.total_cars + resp.per_page
    /\ ParseInt(req["page"]).val > 1

\* C8: a page number beyond the last page gives the last page (the Cars after
\* the last full page, in the requested order), an empty page when there is no
\* result, and the request does not fail.
C8_BeyondLastGivesLastPage ==
    AskedBeyondLast =>
        /\ resp.status = "ok"
        /\ resp.number = resp.num_pages
        /\ resp.number * resp.per_page >= resp.total_cars
        /\ (resp.number - 1) * resp.per_page < resp.total_cars \/ resp.total_cars = 0
        /\ Len(resp.page) = resp.total_cars - (resp.number - 1) * resp.per_page
        /\ resp.total_cars = 0 => resp.page = <<>>
        /\ \A k \in 1 .. Len(resp.page) : resp.page[k] \in resp.result

\* C8 happens: page 3 of a two-page listing gives page 2, with the one Car left
C8_Witness ==
    /\ AskedBeyondLast
    /\ req["page"] = <<"3">>
    /\ resp.number = 2
    /\ Len(resp.page) = 1

-----------------------------------------------------------------------------
(* Properties: car_list_view, malformed input and facets *)

\* the request without its malformed numeric parameters
Malformed(r) ==
    {k \in DOMAIN r : k \in IntParams \cup DecimalParams /\ r[k] # <<>> /\ ~ParseInt(r[k]).ok}

WithoutMalformed(r) == [k \in DOMAIN r \ Malformed(r) |-> r[k]]

\* C9: a malformed numeric parameter is treated as absent: the request never
\* ends in an error and gives the result of the request without that parameter.
C9_MalformedTreatedAsAbsent ==
    resp.status # "none" =>
        /\ resp.status = "ok"
        /\ resp.result = Filtered(cars, WithoutMalformed(req))

AvailableRows == {i \in DOMAIN cars : cars[i].status = "available"}

\* C10: the facets are those of the available Cars: their years, their colors,
\* their lowest and highest selling price, whatever the filters.
C10_FacetsOverAvailableCars ==
    resp.status = "ok" =>
        /\ resp.facets.years = {cars[i].year : i \in AvailableRows}
        /\ resp.facets.colors = {cars[i].color : i \in AvailableRows}
        /\ AvailableRows # {} =>
              /\ resp.facets.price_range[1] = SetMin({cars[i].selling_price : i \in AvailableRows})
              /\ resp.facets.price_range[2] = SetMax({cars[i].selling_price : i \in AvailableRows})

-----------------------------------------------------------------------------
(* Properties: car_list_view, mileage bucket and search *)

\* request r without parameter k
Without(r, k) == [j \in DOMAIN r \ {k} |-> r[j]]

\* the upper bound in kilometres a bucket text stands for, 0 for no bucket
BucketBound(text) ==
    IF text = <<"1","0">> THEN 10000
    ELSE IF text = <<"1","5">> THEN 15000
    ELSE IF text = <<"2","0">> THEN 20000
    ELSE IF text = <<"2","5">> THEN 25000
    ELSE IF text = <<"2","7">> THEN 27000
    ELSE 0

\* C11: a mileage parameter 10, 15, 20, 25 or 27 keeps exactly the Cars of the
\* listing without it whose mileage is at most 10000, 15000, 20000, 25000 or
\* 27000 km (bound included); any other value keeps them all.
C11_MileageBucket ==
    (resp.status = "ok" /\ Has(req, "mileage")) =>
        LET others == Filtered(cars, Without(req, "mileage"))
            bound  == BucketBound(req["mileage"])
        IN  IF bound > 0
            THEN resp.result = {i \in others : cars[i].mileage <= bound}
            ELSE resp.result = others

\* C11 happens: bucket 10 keeps a Car with exactly 10000 km and drops 10001 km
C11_Witness ==
    /\ resp.status = "ok"
    /\ Has(req, "mileage") /\ req["mileage"] = <<"1","0">>
    /\ \E i \in resp.result : cars[i].mileage = 10000
    /\ \E i \in DOMAIN cars :
          cars[i].status = "available" /\ cars[i].mileage = 10001 /\ i \notin resp.result

\* the text occurs in the other one, letter case aside
Occurs(needle, hay) ==
    \E off \in 0 .. (Len(hay) - Len(needle)) :
        [j \in 1 .. Len(needle) |-> LowerCh(hay[off + j])]
            = [j \in 1 .. Len(needle) |-> LowerCh(needle[j])]

\* C12: with a non-empty search text the listing keeps exactly the Cars of the
\* listing without it in whose brand name, model name, title or description
\* the text occurs, letter case aside.
C12_SearchAnyOfFourFields ==
    (resp.status = "ok" /\ Present(req, "search")) =>
        resp.result =
            {i \in Filtered(cars, Without(req, "search")) :
                \/ Occurs(req["search"], BrandName[cars[i].brand])
                \/ Occurs(req["search"], ModelName[cars[i].car_model])
                \/ Occurs(req["search"], cars[i].title)
                \/ Occurs(req["search"], cars[i].description)}

\* C12 happens: a Car found through its description only, in another letter
\* case, while another filter is active and another available Car is dropped
C12_Witness ==
    /\ resp.status = "ok"
    /\ Present(req, "search") /\ req["search"] = <<"R","A","R">>
    /\ Present(req, "availability")
    /\ \E i \in resp.result : cars[i].description = <<"R","a","r","e">>
    /\ \E i \in DOMAIN cars : cars[i].status = "available" /\ i \notin resp.result

\* C27: saving an image with is_main = false changes the flag of no other
\* image: the clearing step changes nothing and the write changes only the
\* saved row, which is stored unflagged, so a Car whose only main image is
\* saved again with is_main = false has no main image and none is promoted.
C27_NonMainSaveTouchesNoOther ==
    [][\A c \in Callers :
          /\ (pc[c] = "idle" /\ pc'[c] = "write" /\ ~ inst'[c].is_main) => images' = images
          /\ (pc[c] = "write" /\ pc'[c] = "idle" /\ ~ inst[c].is_main) =>
                /\ DOMAIN images' = DOMAIN images \cup {saved'[c].id}
                /\ ~ images'[saved'[c].id].is_main
                /\ \A i \in DOMAIN images \ {saved'[c].id} : images'[i] = images[i]]_vars

\* the oldest of three images was saved again with is_main = false and its Car,
\* which has another image, is left with no main image
C27_Witness ==
    /\ pc[1] = "idle"
    /\ saved[1].id = 1 /\ ~ saved[1].is_main
    /\ 3 \in ImageIds
    /\ Cardinality({i \in ImageIds : images[i].car = saved[1].car}) >= 2
    /\ MainImages(images, saved[1].car) = {}
    /\ \E i \in ImageIds : images[i].is_main

-----------------------------------------------------------------------------
(* Properties of lead capture *)

\* the Customer rows stored under an email
CustomersOf(email) == {i \in DOMAIN customers : customers[i].email = email}

\* the finished submissions that were made for a Car
ForACar == {k \in DOMAIN subs : subs[k].car # 0}

SubmittedEmails == {subs[k].form.email : k \in DOMAIN subs}

\* no request is under way
AllIdle == \A c \in Callers : lead[c].pc = "idle"

\* C13: after valid submissions made one after another there is exactly one
\* Customer row per distinct submitted email, and every submission made for a
\* Car has its own Inquiry/TestDrive row that references that Customer.
C13_OneCustomerPerEmail ==
    AllIdle =>
        /\ \A e \in SubmittedEmails : Cardinality(CustomersOf(e)) = 1
        /\ Len(customers) = Cardinality(SubmittedEmails)
        /\ \A k \in ForACar :
              /\ subs[k].row \in DOMAIN LeadTable(subs[k].kind)
              /\ LeadTable(subs[k].kind)[subs[k].row].customer
                     \in CustomersOf(subs[k].form.email)
              /\ LeadTable(subs[k].kind)[subs[k].row].car = subs[k].car
        /\ \A k, m \in ForACar :
              k # m => <<subs[k].kind, subs[k].row>> # <<subs[m].kind, subs[m].row>>
        /\ Len(inquiries) + Len(test_drives) = Cardinality(ForACar)

\* a TestDrive and then an Inquiry for the same email: one Customer, two rows
C13_Witness ==
    /\ AllIdle
    /\ Len(subs) = 2
    /\ subs[1].kind = "test_drive" /\ subs[2].kind = "inquiry"
    /\ subs[1].form.email = E_a /\ subs[2].form.email = E_a
    /\ subs[1].car = 1 /\ subs[2].car = 1
    /\ Len(customers) = 1 /\ Len(test_drives) = 1 /\ Len(inquiries) = 1
    /\ test_drives[1].customer = 1 /\ inquiries[1].customer = 1

\* C14: when submissions with the same unknown email run at the same time, the
\* store ends with exactly one Customer row for that email and no request made
\* for a Car fails.
C14_OneCustomerUnderRace ==
    AllIdle =>
        /\ \A e \in SubmittedEmails : Cardinality(CustomersOf(e)) = 1
        /\ \A k \in ForACar : subs[k].row # 0

\* C15: every valid submission posted to a Car's detail page completes and
\* persists one new Inquiry/TestDrive row attached to that Car and to the
\* Customer resolved from the submitted email.
C15_DetailPostPersists ==
    \A c \in Callers :
        (outcome[c].result \in {"saved", "error"} /\ outcome[c].entry = "view") =>
            /\ outcome[c].result = "saved"
            /\ outcome[c].row \in DOMAIN LeadTable(outcome[c].kind)
            /\ LeadTable(outcome[c].kind)[outcome[c].row].car = outcome[c].car
            /\ LeadTable(outcome[c].kind)[outcome[c].row].customer
                   \in CustomersOf(outcome[c].email)

\* optional '+', optional '1', then 9 to 15 digits and nothing more
MatchesPhonePattern(s) ==
    \E plus \in {0, 1}, one \in {0, 1} :
        /\ Len(s) >= plus + one + 9 /\ Len(s) <= plus + one + 15
        /\ plus = 1 => s[1] = "+"
        /\ one = 1 => s[plus + 1] = "1"
        /\ \A j \in plus + one + 1 .. Len(s) :
              s[j] \in {"0", "1", "2", "3", "4", "5", "6", "7", "8", "9"}

\* a submission that must fail validation
Defective(form) ==
    \/ form.first_name = <<>> \/ form.last_name = <<>>
    \/ form.email = <<>> \/ form.phone = <<>>
    \/ ~ \E j \in 1 .. Len(form.email) : form.email[j] = "@"
    \/ ~ MatchesPhonePattern(form.phone)
    \/ form.kind = "test_drive" /\ form.driving_license_number = <<>>

LeadTables == <<customers, inquiries, test_drives>>

\* C16: a submission that fails validation is rejected with a validation error
\* and writes nothing: it never reaches the store, and the step that rejects
\* it leaves the Customer, Inquiry and TestDrive tables as they are.
C16_InvalidWritesNothing ==
    [][\A c \in Callers :
          /\ lead'[c].pc # "idle" => ~ Defective(lead'[c].form)
          /\ outcome'[c].result \in {"saved", "error"} => ~ Defective(outcome'[c].form)
          /\ (outcome[c].result = "none" /\ outcome'[c].result = "invalid") =>
                /\ Defective(outcome'[c].form)
                /\ LeadTables' = LeadTables]_vars

\* an Inquiry with phone "12345" is rejected while the store holds a Customer
C16_Witness ==
    /\ outcome[1].result = "invalid"
    /\ outcome[1].form.phone = P_short
    /\ outcome[1].errors = {"phone"}
    /\ Len(customers) = 1 /\ Len(inquiries) = 1

\* the finished submissions that ended up with Customer i
SubmissionsOf(i) == {k \in DOMAIN subs : subs[k].customer = i}

\* C17: a TestDrive submission for an unknown email creates the Customer with
\* the submitted first name, last name, phone and license number; one for a
\* known Customer without a license number stores the submitted number on it.
C17_LicenseBackfilledOrCreated ==
    AllIdle =>
        \A i \in DOMAIN customers :
            LET mine   == SubmissionsOf(i)
                drives == {k \in mine : subs[k].kind = "test_drive"}
            IN  /\ mine # {}
                /\ subs[SetMin(mine)].kind = "test_drive" =>
                      LET form == subs[SetMin(mine)].form
                      IN  customers[i] =
                              [email |-> form.email, first_name |-> form.first_name,
                               last_name |-> form.last_name, phone |-> form.phone,
                               driving_license_number |-> form.driving_license_number]
                /\ drives # {} =>
                      customers[i].driving_license_number =
                          subs[SetMin(drives)].form.driving_license_number

\* an Inquiry creates the Customer, a TestDrive for the same email brings the license
C17_Witness ==
    /\ AllIdle
    /\ Len(subs) = 2
    /\ subs[1].kind = "inquiry" /\ subs[1].form.email = E_a
    /\ subs[2].kind = "test_drive" /\ subs[2].form.email = E_a
    /\ subs[2].form.driving_license_number = L_2
    /\ Len(customers) = 1
    /\ customers[1].driving_license_number = L_2

\* C22: a request that ends in an error without its Inquiry/TestDrive row
\* leaves no Customer behind: the Customer it resolved was stored by an
\* earlier submission and still has the license number it had before.
C22_ErrorLeavesNoCustomer ==
    \A c \in Callers :
        (outcome[c].result = "error" /\ outcome[c].entry = "form" /\ outcome[c].customer # 0) =>
            LET i       == outcome[c].customer
                earlier == {k \in 1 .. Len(subs) - 1 : subs[k].customer = i}
                drives  == {k \in earlier : subs[k].kind = "test_drive"}
            IN  /\ earlier # {}
                /\ customers[i].driving_license_number =
                      IF drives = {} THEN <<>>
                      ELSE subs[SetMin(drives)].form.driving_license_number

\* C26: a submission that reuses a Customer leaves the Customer's first name,
\* last name and phone as the submission that created it gave them, and a
\* license number once stored is not replaced by a later one.
C26_ReuseLeavesCustomer ==
    AllIdle =>
        \A i \in DOMAIN customers :
            LET mine    == SubmissionsOf(i)
                creator == subs[SetMin(mine)].form
                drives  == {k \in mine : subs[k].kind = "test_drive"}
            IN  /\ customers[i].first_name = creator.first_name
                /\ customers[i].last_name = creator.last_name
                /\ customers[i].phone = creator.phone
                /\ customers[i].driving_license_number =
                      IF drives = {} THEN <<>>
                      ELSE subs[SetMin(drives)].form.driving_license_number

\* Ann Lee's TestDrive with license L1 is followed by Bob Roe's with license L2
\* under the same email: the Customer is still Ann Lee with L1
C26_Witness ==
    /\ AllIdle
    /\ Len(subs) = 2 /\ Len(customers) = 1
    /\ subs[1].form = TestDriveData(N_ann, E_a, L_1)
    /\ subs[2].form = TestDriveData(N_bob, E_a, L_2)
    /\ subs[2].customer = 1 /\ subs[2].row = 2
    /\ customers[1] = NewCustomer(subs[1].form)

-----------------------------------------------------------------------------
(* Properties of the detail page *)

\* C23: the related Cars of a Car are at most 4, never include the Car itself,
\* and each is available and has the Car's brand or the Car's model.
C23_RelatedCars ==
    reading.kind = "detail" =>
        /\ Cardinality(reading.related) <= 4
        /\ reading.car \notin reading.related
        /\ \A j \in reading.related :
              /\ j \in DOMAIN cars
              /\ cars[j].status = "available"
              /\ \/ cars[j].brand = cars[reading.car].brand
                 \/ cars[j].car_model = cars[reading.car].car_model

\* five other Cars qualify and four are shown, one by its model alone
C23_Witness ==
    /\ reading.kind = "detail"
    /\ Cardinality(reading.related) = 4
    /\ Cardinality({j \in DOMAIN cars \ {reading.car} :
                       /\ cars[j].status = "available"
                       /\ \/ cars[j].brand = cars[reading.car].brand
                          \/ cars[j].car_model = cars[reading.car].car_model}) = 5
    /\ \E j \in reading.related : cars[j].brand # cars[reading.car].brand

-----------------------------------------------------------------------------
(* Properties of the derived attributes *)

\* C18: reading final_price gives the current selling_price minus the current
\* dealer_discount, negative when the discount is the larger, whatever updates
\* came before.
C18_FinalPriceIsPriceMinusDiscount ==
    reading.kind = "final_price" =>
        reading.value = cars[reading.car].selling_price - cars[reading.car].dealer_discount

\* price 1,000,000 and discount 1,200,000 read as -200,000
C18_Witness ==
    /\ reading.kind = "final_price"
    /\ cars[reading.car].selling_price = 1000000
    /\ cars[reading.car].dealer_discount = 1200000
    /\ reading.value = -200000

\* C19: reading monthly_rent_estimate never fails: it gives 3% of final_price
\* to 2 decimal places (3 cents per unit of price) for a Car for rent and
\* nothing for any other Car.
C19_MonthlyRentEstimateNeverFails ==
    reading.kind = "monthly_rent_estimate" =>
        LET row == cars[reading.car]
        IN  IF row.is_for_rent
            THEN reading.result =
                    [kind |-> "value",
                     cents |-> 3 * (row.selling_price - row.dealer_discount)]
            ELSE reading.result = [kind |-> "none", cents |-> 0]

\* C20: main_image is the image flagged is_main when the Car has one, else the
\* first image of the Car by ascending order and then creation time, and
\* absent (0) when the Car has no image.
C20_MainImage ==
    reading.kind = "main_image" =>
        LET mine    == {i \in ImageIds : images[i].car = reading.car}
            flagged == {i \in mine : images[i].is_main}
        IN  IF flagged # {} THEN reading.value \in flagged
            ELSE IF mine # {}
            THEN /\ reading.value \in mine
                 /\ \A j \in mine \ {reading.value} :
                       \/ images[reading.value].order < images[j].order
                       \/ /\ images[reading.value].order = images[j].order
                          /\ reading.value < j
            ELSE reading.value = 0

\* no image is flagged and the order field, not the age, decides
C20_Witness ==
    /\ reading.kind = "main_image"
    /\ reading.value = 2
    /\ 1 \in ImageIds /\ images[1].car = reading.car /\ images[2].car = reading.car
    /\ ~ images[1].is_main /\ ~ images[2].is_main
    /\ images[1].order = 1 /\ images[2].order = 0

-----------------------------------------------------------------------------
(* Properties of the keyed store *)

\* "2020 Ram Cam": year 2020, Brand Ram, CarModel Cam
Title2020RamCam == <<"2","0","2","0"," ","R","a","m"," ","C","a","m">>

\* the slug form of the titles and stock numbers in use, written out
SlugPart(text) ==
    IF text = Title2020RamCam THEN <<"2","0","2","0","-","r","a","m","-","c","a","m">>
    ELSE IF text = T_dear THEN <<"d","e","a","r">>
    ELSE IF text \in {S_a1, S_a_1} THEN <<"a","-","1">>
    ELSE IF text = S_b2 THEN <<"b","2">>
    ELSE <<>>

\* the last write stored a Car
CarSaved == done.op = "save" /\ done.table = "Car" /\ done.result = "ok"

\* C21: a Car saved with an empty title gets "{year} {brand name} {model name}",
\* one saved with an empty slug gets the slug form of "{title}-{stock_number}"
\* with the title as just derived, and no two stored Cars have the same slug.
C21_TitleAndSlugDerived ==
    /\ CarSaved =>
          LET row == rel.car[done.id]
          IN  /\ done.no_title => row.title = Title2020RamCam
              /\ done.no_slug =>
                    row.slug = SlugPart(row.title) \o <<"-">> \o SlugPart(row.stock_number)
    /\ \A j, k \in DOMAIN rel.car : j # k => rel.car[j].slug # rel.car[k].slug

\* a second Car is stored with neither title nor slug typed and gets both
C21_Witness ==
    /\ CarSaved /\ done.no_title /\ done.no_slug
    /\ Cardinality(DOMAIN rel.car) = 2
    /\ rel.car[done.id].title = Title2020RamCam
    /\ rel.car[done.id].slug =
          <<"2","0","2","0","-","r","a","m","-","c","a","m","-","a","-","1">>

\* every foreign key of the store points at a row that is there
NoDanglingReference(r) ==
    /\ \A m \in DOMAIN r.car_model :
          /\ r.car_model[m].brand \in r.brand
          /\ r.car_model[m].category \in r.category \cup {0}
    /\ \A c \in DOMAIN r.car :
          /\ r.car[c].brand \in r.brand
          /\ r.car[c].car_model \in DOMAIN r.car_model
    /\ \A d \in r.dependent :
          /\ d.car \in DOMAIN r.car
          /\ d.customer \in r.customer \cup {0}

\* the step deletes a row of the table
Deletes(table) == rel' # rel /\ done'.op = "delete" /\ done'.table = table

\* C24: no row ever references a deleted row; deleting a Brand deletes its
\* CarModels and Cars and nothing else but their rows, deleting a Car deletes
\* the rows of the six tables that hang off it, and deleting a Category deletes
\* no CarModel but sets the category of its CarModels to null.
C24_DeletesCascade ==
    [][/\ NoDanglingReference(rel')
       /\ Deletes("Brand") =>
             /\ rel'.brand = rel.brand \ {done'.id}
             /\ DOMAIN rel'.car_model =
                   {m \in DOMAIN rel.car_model : rel.car_model[m].brand # done'.id}
             /\ DOMAIN rel'.car =
                   {c \in DOMAIN rel.car :
                       /\ rel.car[c].brand # done'.id
                       /\ rel.car[c].car_model \in DOMAIN rel'.car_model}
             /\ rel'.dependent = {d \in rel.dependent : d.car \in DOMAIN rel'.car}
             /\ rel'.category = rel.category /\ rel'.customer = rel.customer
       /\ Deletes("Car") =>
             /\ DOMAIN rel'.car = DOMAIN rel.car \ {done'.id}
             /\ rel'.dependent = {d \in rel.dependent : d.car # done'.id}
             /\ rel'.brand = rel.brand /\ rel'.car_model = rel.car_model
             /\ rel'.customer = rel.customer
       /\ Deletes("Category") =>
             /\ rel'.category = rel.category \ {done'.id}
             /\ DOMAIN rel'.car_model = DOMAIN rel.car_model
             /\ \A m \in DOMAIN rel.car_model :
                   /\ rel'.car_model[m].brand = rel.car_model[m].brand
                   /\ rel'.car_model[m].category =
                         IF rel.car_model[m].category = done'.id THEN 0
                         ELSE rel.car_model[m].category
             /\ rel'.car = rel.car /\ rel'.dependent = rel.dependent]_vars

\* a Brand was deleted and its CarModel, a Car and a row of the Car went with
\* it, while a Car of the other Brand went because of its CarModel
C24_Witness ==
    /\ done.op = "delete" /\ done.table = "Brand"
    /\ done.removed = 5
    /\ Cardinality(rel.brand) = 1
    /\ DOMAIN rel.car = {} /\ rel.dependent = {}

\* the uniqueness rules of the store
UniqueRows(r) ==
    /\ \A d, e \in RowsOf(r, "Sale") : d # e => d.car # e.car
    /\ \A d, e \in RowsOf(r, "RentalRate") :
          d # e => <<d.car, d.rate_type>> # <<e.car, e.rate_type>>
    /\ \A j, k \in DOMAIN r.car :
          j # k =>
              /\ r.car[j].stock_number # r.car[k].stock_number
              /\ r.car[j].slug # r.car[k].slug
              /\ r.car[j].vin_number # <<>> => r.car[j].vin_number # r.car[k].vin_number

\* C25: each Car has at most one Sale, each (car, rate_type) at most one
\* RentalRate, no two Cars share a stock number, a non-null VIN or a slug, and
\* a write refused as a uniqueness conflict leaves every row as it was.
C25_UniquenessEnforced ==
    [][/\ UniqueRows(rel')
       /\ done'.result = "IntegrityError" => rel' = rel]_vars

\* a second Sale of a Car is refused while the store holds two Cars and a Sale
C25_Witness ==
    /\ done.op = "save" /\ done.table = "Sale" /\ done.result = "IntegrityError"
    /\ Cardinality(RowsOf(rel, "Sale")) = 1
    /\ Cardinality(DOMAIN rel.car) = 2
    /\ \E j \in DOMAIN rel.car : rel.car[j].vin_number # <<>>

=============================================================================
